---- MODULE Spec2Model ----
(***************************************************************************)
(* A model of the two command-line tools of sound_MESA:                    *)
(*   sound_MESA.py       PSD of channel 0 by maximum-entropy estimation    *)
(*   sound_coherence.py  magnitude-squared coherence of channels 0 and 1   *)
(* Each run of a script is a straight-line program; pc is the position in  *)
(* the script, and every external library call (soundfile, pyloudnorm,     *)
(* memspectrum, scipy, matplotlib) is one step whose result is drawn from  *)
(* a small set of outcomes.  Audio content is abstract: a channel is a     *)
(* signal name, an array is its frame count plus its channels.             *)
(* Not modelled: --verbose, --logfreq and --window (they change only what  *)
(* is printed by sf.info and how the chart looks), and NaN values in the   *)
(* estimators' outputs.                                                    *)
(***************************************************************************)
EXTENDS Integers, Sequences, FiniteSets

\* ------------------------------------------------------------------ bounds
\* Largest number of frames of a decoded file.
MaxFrames == 4
\* Points of the PSD frequency grid (1000000 in the source, scaled down).
N_points == 3

\* ------------------------------------------------------------ input domains
Scripts == {"MESA", "coherence"}
\* --ratestart and --rateend values (Hz); 0 is the default of both.
RateStarts == {0, 3, 5}
RateEnds == {0, 4, 30}
\* --nperseg values.
Npersegs == {4, 8}
\* --normalize: absent, or a target in LUFS.
Targets == {"None", "-23.0"}
\* Sample rates of the decoded file; 49 is odd and is one of the rates at
\* which (N / rate) * rate rounds below N in double precision.
SampleRates == {8, 49}
\* Channel contents: digital silence and two different signals.
Signals == {"silent", "a", "b"}
ChannelCounts == {1, 2}
\* Values the fitted spectrum takes on the grid.
PSDValues == {1, 2, 3}
\* Coherence values in units of 1e-8: 0, 0.5, 1 - 5e-6 and 1.
One == 100000000
CohValues == {0, 50000000, 99999500, One}

\* ------------------------------------------------------------------ state
VARIABLES
    script,            \* which of the two tools runs
    pc,                \* position in the script
    sf_version_ok,     \* version.parse(sf.__version__) >= version.parse(sfreq)
    args,              \* parser.parse_args()
    ratestart, rateend, nperseg, target_loudness,
    data, realrate,    \* sf.read(...)
    normalized_audio,
    data_MESA, m,      \* the series given to M.solve and its order argument
    f_PSD, PSD,
    channel_1, channel_2,
    f, Cxy, f_filtered, Pxy_filtered,
    min_idx_y, max_idx_y,
    title,
    stdout, stderr, exitcode,
    calls              \* the external calls made so far, in order

vars == <<script, pc, sf_version_ok, args, ratestart, rateend, nperseg,
          target_loudness, data, realrate, normalized_audio, data_MESA, m,
          f_PSD, PSD, channel_1, channel_2, f, Cxy, f_filtered, Pxy_filtered,
          min_idx_y, max_idx_y, title, stdout, stderr, exitcode, calls>>

\* Groups of variables for UNCHANGED.
argVars == <<args, ratestart, rateend, nperseg, target_loudness>>
audioVars == <<data, realrate, normalized_audio>>
mesaVars == <<data_MESA, m, f_PSD, PSD>>
cohVars == <<channel_1, channel_2, f, Cxy, f_filtered, Pxy_filtered, title>>
idxVars == <<min_idx_y, max_idx_y>>
outVars == <<stdout, stderr, exitcode>>

\* ------------------------------------------------------------ value shapes
NoArgs == [ratestart |-> 0, rateend |-> 0, nperseg |-> 0, normalize |-> "None"]
\* An array of samples: ndim dimensions, `frames` rows, one signal per
\* channel, and the gain applied to it ("none", "finite" or "inf").
NoAudio == [ndim |-> 0, frames |-> 0, chans |-> <<>>, gain |-> "none"]
\* One channel as a float64 series.
NoSeries == [len |-> 0, sig |-> "silent", gain |-> "none"]

\* A frequency is the fraction num/den of Hz, den > 0.
Hz(num, den) == <<num, den>>
FreqLE(a, b) == a[1] * b[2] <= b[1] * a[2]
FreqLT(a, b) == a[1] * b[2] < b[1] * a[2]

\* -------------------------------------------------------- pure computations
\* int(a / b) for integers a and b > 0: Python's true division followed by
\* int(), which truncates toward zero.
IntOfQuot(a, b) == IF a >= 0 THEN a \div b ELSE -((-a) \div b)

\* A variant that rounds the Nyquist frequency to the nearest integer.
ResolveRateEnd_Round(re, rate) == IF re = 0 THEN (rate + 1) \div 2 ELSE re

\* if rateend == 0: rateend = int(realrate / 2)
ResolveRateEnd(re, rate) == IF re = 0 THEN IntOfQuot(rate, 2) ELSE re

\* The (frames, rate) pairs for which the double (frames / rate) * rate is
\* below frames, so that int() of it is frames - 1.
FloatShort == {<<1, 49>>, <<2, 49>>, <<4, 49>>}

\* int(t * realrate) with t = frames / realrate.
TruncLen(frames, rate) ==
    IF <<frames, rate>> \in FloatShort THEN frames - 1 ELSE frames

\* array[:int(t * realrate), ch].astype(np.float64) of a 2-D array.
Column(audio, rate, ch) ==
    [len  |-> TruncLen(audio.frames, rate),
     sig  |-> audio.chans[ch + 1],
     gain |-> audio.gain]

RECURSIVE Pow(_, _)
Pow(b, e) == IF e = 0 THEN 1 ELSE b * Pow(b, e - 1)

\* int(2 * n / (2 * np.log(n))) for n >= 2, that is floor(n / ln n): the k
\* with n^k <= e^n < n^(k+1).  e^n is replaced by (19/7)^n, which lies in
\* the same interval of powers of n for every 2 <= n <= 7.
OrderOf(n) ==
    CHOOSE k \in 0..(2 * n) :
        /\ Pow(n, k) * Pow(7, n) <= Pow(19, n)
        /\ Pow(19, n) < Pow(n, k + 1) * Pow(7, n)

\* ------------------------------------------------------------------- steps
\* An uncaught exception: the traceback goes to standard error and the
\* interpreter exits with status 1.
Raise(exc) ==
    /\ stderr' = Append(stderr, "Traceback: " \o exc)
    /\ exitcode' = 1
    /\ pc' = "exit"
    /\ UNCHANGED stdout

Init ==
    /\ script \in Scripts
    /\ pc = "import"
    /\ sf_version_ok \in BOOLEAN
    /\ args = NoArgs
    /\ ratestart = 0 /\ rateend = 0 /\ nperseg = 0
    /\ target_loudness = "None"
    /\ data = NoAudio /\ realrate = 0 /\ normalized_audio = NoAudio
    /\ data_MESA = NoSeries /\ m = 0
    /\ f_PSD = <<>> /\ PSD = <<>>
    /\ channel_1 = NoSeries /\ channel_2 = NoSeries
    /\ f = <<>> /\ Cxy = <<>> /\ f_filtered = <<>> /\ Pxy_filtered = <<>>
    /\ min_idx_y = 0 /\ max_idx_y = 0
    /\ title = ""
    /\ stdout = <<>> /\ stderr = <<>> /\ exitcode = -1
    /\ calls = <<>>

\* sound_MESA.py 20-25: the SoundFile version check.
MESA_VersionCheck ==
    /\ script = "MESA" /\ pc = "import"
    /\ IF sf_version_ok
         THEN /\ pc' = "parse"
              /\ UNCHANGED outVars
         ELSE /\ stderr' = Append(stderr, "SoundFile version")
              /\ exitcode' = 1
              /\ pc' = "exit"
              /\ UNCHANGED stdout
    /\ UNCHANGED <<script, sf_version_ok, argVars, audioVars, mesaVars,
                   cohVars, idxVars, calls>>

\* sound_MESA.py 42-50: parse the command line and extract the arguments.
MESA_ParseArgs ==
    /\ script = "MESA" /\ pc = "parse"
    /\ \E rs \in RateStarts, re \in RateEnds, tl \in Targets :
         /\ args' = [ratestart |-> rs, rateend |-> re, nperseg |-> 0,
                     normalize |-> tl]
         /\ ratestart' = rs
         /\ rateend' = re
         /\ target_loudness' = tl
    /\ pc' = "read"
    /\ UNCHANGED <<script, sf_version_ok, nperseg, audioVars, mesaVars,
                   cohVars, idxVars, outVars, calls>>

\* A decoded file: sample rate, channel count, channel contents, frames.
Decoded(ndim, frames, chans) ==
    [ndim |-> ndim, frames |-> frames, chans |-> chans, gain |-> "none"]

ChannelLists == UNION {[1..c -> Signals] : c \in ChannelCounts}

\* sound_MESA.py 59: sf.read(fname, always_2d=True) returns a 2-D array
\* whatever the channel count.
MESA_Read ==
    /\ script = "MESA" /\ pc = "read"
    /\ \E rate \in SampleRates, n \in 0..MaxFrames, cs \in ChannelLists :
         /\ data' = Decoded(2, n, cs)
         /\ realrate' = rate
    /\ calls' = Append(calls, "sf.read")
    /\ pc' = "rateend"
    /\ UNCHANGED <<script, sf_version_ok, argVars, normalized_audio, mesaVars,
                   cohVars, idxVars, outVars>>

\* sound_MESA.py 59: sf.read raises (missing or undecodable file).
MESA_ReadFails ==
    /\ script = "MESA" /\ pc = "read"
    /\ calls' = Append(calls, "sf.read")
    /\ Raise("sf.read")
    /\ UNCHANGED <<script, sf_version_ok, argVars, audioVars, mesaVars,
                   cohVars, idxVars>>

\* sound_MESA.py 60-61.
MESA_RateEnd ==
    /\ script = "MESA" /\ pc = "rateend"
    /\ rateend' = ResolveRateEnd(rateend, realrate)
    /\ pc' = "normalize"
    /\ UNCHANGED <<script, sf_version_ok, args, ratestart, nperseg,
                   target_loudness, audioVars, mesaVars, cohVars, idxVars,
                   outVars, calls>>

\* pyloudnorm rejects audio shorter than its 0.4 s gating block.
MeterRejects(audio, rate) == audio.frames * 10 < 4 * rate

\* meter.integrated_loudness: every block of digital silence is gated out
\* and the result is -inf.
IntegratedLoudness(audio) ==
    IF \A c \in 1..Len(audio.chans) : audio.chans[c] = "silent"
      THEN "-inf" ELSE "finite"

\* pyln.normalize.loudness(data, loudness, target): the samples times
\* 10^((target - loudness) / 20), which is infinite for loudness = -inf.
NormalizeLoudness(audio, loudness) ==
    [audio EXCEPT !.gain = IF loudness = "-inf" THEN "inf" ELSE "finite"]

\* sound_MESA.py 64-72: loudness normalization when --normalize is given.
MESA_Normalize ==
    /\ script = "MESA" /\ pc = "normalize"
    /\ IF target_loudness # "None"
         THEN /\ ~MeterRejects(data, realrate)
              /\ normalized_audio' =
                     NormalizeLoudness(data, IntegratedLoudness(data))
              /\ calls' = calls \o <<"integrated_loudness", "normalize.loudness",
                                     "integrated_loudness">>
              /\ stdout' = stdout \o <<"loudness before", "loudness after">>
         ELSE /\ normalized_audio' = data
              /\ UNCHANGED <<calls, stdout>>
    /\ pc' = "summary"
    /\ UNCHANGED <<script, sf_version_ok, argVars, data, realrate, mesaVars,
                   cohVars, idxVars, stderr, exitcode>>

\* sound_MESA.py 66: the meter raises ValueError on a clip that is too short.
MESA_MeterRaises ==
    /\ script = "MESA" /\ pc = "normalize"
    /\ target_loudness # "None"
    /\ MeterRejects(data, realrate)
    /\ calls' = Append(calls, "integrated_loudness")
    /\ Raise("integrated_loudness")
    /\ UNCHANGED <<script, sf_version_ok, argVars, audioVars, mesaVars,
                   cohVars, idxVars>>

\* sound_MESA.py 75-76: the summary line.
MESA_Summary ==
    /\ script = "MESA" /\ pc = "summary"
    /\ stdout' = Append(stdout, "summary")
    /\ pc' = "select"
    /\ UNCHANGED <<script, sf_version_ok, argVars, audioVars, mesaVars,
                   cohVars, idxVars, stderr, exitcode, calls>>

\* sound_MESA.py 77-78: channel 0 of the (normalized) audio.
MESA_Select ==
    /\ script = "MESA" /\ pc = "select"
    /\ data_MESA' = Column(normalized_audio, realrate, 0)
    /\ pc' = "solve"
    /\ UNCHANGED <<script, sf_version_ok, argVars, audioVars, m, f_PSD, PSD,
                   cohVars, idxVars, outVars, calls>>

\* The m argument of M.solve, for a series of n # 1 samples.  np.log(0) is
\* -inf, so 0 / -inf is -0.0 and the order is 0.
SolveOrder(n) == IF n = 0 THEN 0 ELSE OrderOf(n)

\* Inputs on which the autoregressive fit is undefined: the solver may raise
\* or may return a meaningless model.
Degenerate(series, order) ==
    \/ series.len = 0
    \/ order = 0
    \/ order >= series.len
    \/ series.sig = "silent"
    \/ series.gain = "inf"

\* sound_MESA.py 83: for one sample np.log(1) is 0, the quotient is inf and
\* int(inf) raises OverflowError before M.solve is called.
MESA_OrderOverflow ==
    /\ script = "MESA" /\ pc = "solve"
    /\ data_MESA.len = 1
    /\ Raise("OverflowError")
    /\ UNCHANGED <<script, sf_version_ok, argVars, audioVars, mesaVars,
                   cohVars, idxVars, calls>>

\* sound_MESA.py 81-83: M.solve returns a fitted model.
MESA_Solve ==
    /\ script = "MESA" /\ pc = "solve"
    /\ data_MESA.len # 1
    /\ m' = SolveOrder(data_MESA.len)
    /\ calls' = Append(calls, "M.solve")
    /\ pc' = "spectrum"
    /\ UNCHANGED <<script, sf_version_ok, argVars, audioVars, data_MESA,
                   f_PSD, PSD, cohVars, idxVars, outVars>>

\* sound_MESA.py 81-83: M.solve raises on a degenerate input.
MESA_SolveRaises ==
    /\ script = "MESA" /\ pc = "solve"
    /\ data_MESA.len # 1
    /\ Degenerate(data_MESA, SolveOrder(data_MESA.len))
    /\ m' = SolveOrder(data_MESA.len)
    /\ calls' = Append(calls, "M.solve")
    /\ Raise("M.solve")
    /\ UNCHANGED <<script, sf_version_ok, argVars, audioVars, data_MESA,
                   f_PSD, PSD, cohVars, idxVars>>

\* np.linspace(start, stop, num): num points, the i-th (from 0) at
\* start + i * (stop - start) / (num - 1).
Linspace(start, stop, num) ==
    [i \in 1..num |->
        Hz(start * (num - 1) + (i - 1) * (stop - start), num - 1)]

\* sound_MESA.py 86-88: the spectrum sampled on the grid.
MESA_Spectrum ==
    /\ script = "MESA" /\ pc = "spectrum"
    /\ f_PSD' = Linspace(ratestart, rateend, N_points)
    /\ PSD' \in [1..N_points -> PSDValues]
    /\ calls' = Append(calls, "M.spectrum")
    /\ pc' = "extrema"
    /\ UNCHANGED <<script, sf_version_ok, argVars, audioVars, data_MESA, m,
                   cohVars, idxVars, outVars>>

\* np.argmin / np.argmax: the first index holding the extreme value
\* (indices from 1 here).
ArgMin(s) ==
    CHOOSE i \in 1..Len(s) :
        /\ \A j \in 1..Len(s) : s[i] <= s[j]
        /\ \A j \in 1..(i - 1) : s[i] < s[j]
ArgMax(s) ==
    CHOOSE i \in 1..Len(s) :
        /\ \A j \in 1..Len(s) : s[j] <= s[i]
        /\ \A j \in 1..(i - 1) : s[j] < s[i]

\* sound_MESA.py 99-101: locate the extrema and report the max frequency.
MESA_Extrema ==
    /\ script = "MESA" /\ pc = "extrema"
    /\ min_idx_y' = ArgMin(PSD)
    /\ max_idx_y' = ArgMax(PSD)
    /\ stdout' = Append(stdout, "max frequency")
    /\ pc' = "show"
    /\ UNCHANGED <<script, sf_version_ok, argVars, audioVars, mesaVars,
                   cohVars, stderr, exitcode, calls>>

\* sound_MESA.py 90-96 and 104-112: build the chart and show it; the script
\* then ends with status 0.
MESA_Show ==
    /\ script = "MESA" /\ pc = "show"
    /\ calls' = Append(calls, "plt.show")
    /\ exitcode' = 0
    /\ pc' = "exit"
    /\ UNCHANGED <<script, sf_version_ok, argVars, audioVars, mesaVars,
                   cohVars, idxVars, stdout, stderr>>

\* ------------------------------------------------------ sound_coherence.py
\* sound_coherence.py 11-16: the SoundFile version check.
Coh_VersionCheck ==
    /\ script = "coherence" /\ pc = "import"
    /\ IF sf_version_ok
         THEN /\ pc' = "parse"
              /\ UNCHANGED outVars
         ELSE /\ stderr' = Append(stderr, "SoundFile version")
              /\ exitcode' = 1
              /\ pc' = "exit"
              /\ UNCHANGED stdout
    /\ UNCHANGED <<script, sf_version_ok, argVars, audioVars, mesaVars,
                   cohVars, idxVars, calls>>

\* sound_coherence.py 26-34: parse the command line, extract the arguments.
Coh_ParseArgs ==
    /\ script = "coherence" /\ pc = "parse"
    /\ \E rs \in RateStarts, re \in RateEnds, np \in Npersegs :
         /\ args' = [ratestart |-> rs, rateend |-> re, nperseg |-> np,
                     normalize |-> "None"]
         /\ ratestart' = rs
         /\ rateend' = re
         /\ nperseg' = np
    /\ pc' = "nperseg"
    /\ UNCHANGED <<script, sf_version_ok, target_loudness, audioVars,
                   mesaVars, cohVars, idxVars, outVars, calls>>

\* A variant with half the threshold.
MinNperseg_Low == 8 \div 2

\* The least segment length the script accepts.
MinNperseg == 8

\* sound_coherence.py 35-37: print(...) writes the message to standard
\* output, exit(1) ends the run.
Coh_NpersegCheck ==
    /\ script = "coherence" /\ pc = "nperseg"
    /\ IF nperseg < MinNperseg
         THEN /\ stdout' = Append(stdout, "nperseg should be >= 8")
              /\ exitcode' = 1
              /\ pc' = "exit"
              /\ UNCHANGED stderr
         ELSE /\ pc' = "read"
              /\ UNCHANGED outVars
    /\ UNCHANGED <<script, sf_version_ok, argVars, audioVars, mesaVars,
                   cohVars, idxVars, calls>>

\* sound_coherence.py 47: sf.read(fname, always_2d=False) returns a 1-D
\* array for a mono file and a 2-D array otherwise.
Coh_Read ==
    /\ script = "coherence" /\ pc = "read"
    /\ \E rate \in SampleRates, n \in 0..MaxFrames, cs \in ChannelLists :
         /\ data' = Decoded(IF Len(cs) = 1 THEN 1 ELSE 2, n, cs)
         /\ realrate' = rate
    /\ calls' = Append(calls, "sf.read")
    /\ pc' = "rateend"
    /\ UNCHANGED <<script, sf_version_ok, argVars, normalized_audio, mesaVars,
                   cohVars, idxVars, outVars>>

\* sound_coherence.py 47: sf.read raises (missing or undecodable file).
Coh_ReadFails ==
    /\ script = "coherence" /\ pc = "read"
    /\ calls' = Append(calls, "sf.read")
    /\ Raise("sf.read")
    /\ UNCHANGED <<script, sf_version_ok, argVars, audioVars, mesaVars,
                   cohVars, idxVars>>

\* sound_coherence.py 48-49.
Coh_RateEnd ==
    /\ script = "coherence" /\ pc = "rateend"
    /\ rateend' = ResolveRateEnd(rateend, realrate)
    /\ pc' = "summary"
    /\ UNCHANGED <<script, sf_version_ok, args, ratestart, nperseg,
                   target_loudness, audioVars, mesaVars, cohVars, idxVars,
                   outVars, calls>>

\* sound_coherence.py 52-53: the summary line.
Coh_Summary ==
    /\ script = "coherence" /\ pc = "summary"
    /\ stdout' = Append(stdout, "summary")
    /\ pc' = "channels"
    /\ UNCHANGED <<script, sf_version_ok, argVars, audioVars, mesaVars,
                   cohVars, idxVars, stderr, exitcode, calls>>

\* data.ndim == 1 or data.shape[1] < 2
TooFewChannels(audio) == audio.ndim = 1 \/ Len(audio.chans) < 2

\* A variant of the channel-count check that leaves with sys.exit().
Coh_ChannelCheck_Exit0 ==
    /\ script = "coherence" /\ pc = "channels"
    /\ IF TooFewChannels(data)
         THEN /\ stderr' = Append(stderr, "at least two channels")
              /\ exitcode' = 0
              /\ pc' = "exit"
              /\ UNCHANGED stdout
         ELSE /\ pc' = "select"
              /\ UNCHANGED outVars
    /\ UNCHANGED <<script, sf_version_ok, argVars, audioVars, mesaVars,
                   cohVars, idxVars, calls>>

\* sound_coherence.py 56-58: the channel-count check.
Coh_ChannelCheck ==
    /\ script = "coherence" /\ pc = "channels"
    /\ IF TooFewChannels(data)
         THEN /\ stderr' = Append(stderr, "at least two channels")
              /\ exitcode' = 1
              /\ pc' = "exit"
              /\ UNCHANGED stdout
         ELSE /\ pc' = "select"
              /\ UNCHANGED outVars
    /\ UNCHANGED <<script, sf_version_ok, argVars, audioVars, mesaVars,
                   cohVars, idxVars, calls>>

\* sound_coherence.py 61-62: channels 0 and 1.
Coh_Select ==
    /\ script = "coherence" /\ pc = "select"
    /\ channel_1' = Column(data, realrate, 0)
    /\ channel_2' = Column(data, realrate, 1)
    /\ pc' = "coherence"
    /\ UNCHANGED <<script, sf_version_ok, argVars, audioVars, mesaVars,
                   f, Cxy, f_filtered, Pxy_filtered, title, idxVars, outVars,
                   calls>>

Min(a, b) == IF a <= b THEN a ELSE b

\* scipy.signal.coherence(x, y, fs, nperseg): a segment longer than the
\* input is shortened to it; the frequencies are i * fs / nperseg for
\* i = 0 .. nperseg // 2; an empty input gives empty arrays.
CoherenceFreqs(x, fs, nps) ==
    IF x.len = 0 THEN <<>>
    ELSE [i \in 1..(Min(nps, x.len) \div 2 + 1) |->
             Hz((i - 1) * fs, Min(nps, x.len))]

\* The coherence values the estimator may return on a grid of g points:
\* 1 at every frequency when both inputs are the same signal with power in
\* it, some value of [0, 1] at each frequency otherwise.
CoherenceValues(x, y, g) ==
    IF x = y /\ x.sig # "silent"
      THEN {[i \in 1..g |-> One]}
      ELSE [1..g -> CohValues]

\* sound_coherence.py 65.
Coh_Coherence ==
    /\ script = "coherence" /\ pc = "coherence"
    /\ f' = CoherenceFreqs(channel_1, realrate, nperseg)
    /\ Cxy' \in CoherenceValues(channel_1, channel_2,
                                Len(CoherenceFreqs(channel_1, realrate, nperseg)))
    /\ calls' = Append(calls, "signal.coherence")
    /\ pc' = "mask"
    /\ UNCHANGED <<script, sf_version_ok, argVars, audioVars, mesaVars,
                   channel_1, channel_2, f_filtered, Pxy_filtered, title,
                   idxVars, outVars>>

\* A variant of the mask with an exclusive upper end.
BandMask_Open(fs, lo, hi) ==
    [i \in 1..Len(fs) |-> FreqLE(Hz(lo, 1), fs[i]) /\ FreqLT(fs[i], Hz(hi, 1))]

\* (f >= ratestart) & (f <= rateend), element by element.
BandMask(fs, lo, hi) ==
    [i \in 1..Len(fs) |-> FreqLE(Hz(lo, 1), fs[i]) /\ FreqLE(fs[i], Hz(hi, 1))]

\* a[mask]: the elements of a at which mask is true, in order.
RECURSIVE Masked(_, _)
Masked(a, mask) ==
    IF a = <<>> THEN <<>>
    ELSE IF Head(mask) THEN <<Head(a)>> \o Masked(Tail(a), Tail(mask))
         ELSE Masked(Tail(a), Tail(mask))

\* sound_coherence.py 68-70.
Coh_Mask ==
    /\ script = "coherence" /\ pc = "mask"
    /\ f_filtered' = Masked(f, BandMask(f, ratestart, rateend))
    /\ Pxy_filtered' = Masked(Cxy, BandMask(f, ratestart, rateend))
    /\ pc' = "extrema"
    /\ UNCHANGED <<script, sf_version_ok, argVars, audioVars, mesaVars,
                   channel_1, channel_2, f, Cxy, title, idxVars, outVars,
                   calls>>

\* sound_coherence.py 73-79: np.argmin raises ValueError on an empty
\* array; otherwise the extrema are located and the min/max line printed.
Coh_Extrema ==
    /\ script = "coherence" /\ pc = "extrema"
    /\ IF Pxy_filtered = <<>>
         THEN /\ Raise("ValueError")
              /\ UNCHANGED idxVars
         ELSE /\ min_idx_y' = ArgMin(Pxy_filtered)
              /\ max_idx_y' = ArgMax(Pxy_filtered)
              /\ stdout' = Append(stdout, "min/max coherence")
              /\ pc' = "identical"
              /\ UNCHANGED <<stderr, exitcode>>
    /\ UNCHANGED <<script, sf_version_ok, argVars, audioVars, mesaVars,
                   cohVars, calls>>

\* np.allclose defaults, in the unit of the coherence values (1e-8):
\* atol = 1e-8, and rtol = 1e-5 as the divisor 1e5.
Atol == 1
RtolInv == 100000

Abs(x) == IF x >= 0 THEN x ELSE -x

\* A variant that compares exactly.
AllClose_Exact(a, b) == \A i \in 1..Len(a) : a[i] = b

\* np.allclose(a, b): |a[i] - b| <= atol + rtol * |b| at every i.
AllClose(a, b) ==
    \A i \in 1..Len(a) : Abs(a[i] - b) <= Atol + Abs(b) \div RtolInv

\* sound_coherence.py 81-84: the identical-channel check on the whole grid.
Coh_Identical ==
    /\ script = "coherence" /\ pc = "identical"
    /\ IF AllClose(Cxy, One)
         THEN /\ stdout' = Append(stdout, "The two channels are identical.")
              /\ title' = "Channels identical in"
         ELSE /\ title' = "Coherence for"
              /\ UNCHANGED stdout
    /\ pc' = "show"
    /\ UNCHANGED <<script, sf_version_ok, argVars, audioVars, mesaVars,
                   channel_1, channel_2, f, Cxy, f_filtered, Pxy_filtered,
                   idxVars, stderr, exitcode, calls>>

\* sound_coherence.py 87-102: build the chart and show it; the script then
\* ends with status 0.
Coh_Show ==
    /\ script = "coherence" /\ pc = "show"
    /\ calls' = Append(calls, "plt.show")
    /\ exitcode' = 0
    /\ pc' = "exit"
    /\ UNCHANGED <<script, sf_version_ok, argVars, audioVars, mesaVars,
                   cohVars, idxVars, stdout, stderr>>

Next ==
    \/ MESA_VersionCheck
    \/ MESA_ParseArgs
    \/ MESA_Read
    \/ MESA_ReadFails
    \/ MESA_RateEnd
    \/ MESA_Normalize
    \/ MESA_MeterRaises
    \/ MESA_Summary
    \/ MESA_Select
    \/ MESA_OrderOverflow
    \/ MESA_Solve
    \/ MESA_SolveRaises
    \/ MESA_Spectrum
    \/ MESA_Extrema
    \/ MESA_Show
    \/ Coh_VersionCheck
    \/ Coh_ParseArgs
    \/ Coh_NpersegCheck
    \/ Coh_Read
    \/ Coh_ReadFails
    \/ Coh_RateEnd
    \/ Coh_Summary
    \/ Coh_ChannelCheck
    \/ Coh_Select
    \/ Coh_Coherence
    \/ Coh_Mask
    \/ Coh_Extrema
    \/ Coh_Identical
    \/ Coh_Show

Spec == Init /\ [][Next]_vars

\* ================================================================ claims
Invoked(c) == \E i \in 1..Len(calls) : calls[i] = c
Printed(line) == \E i \in 1..Len(stdout) : stdout[i] = line
Complained(line) == \E i \in 1..Len(stderr) : stderr[i] = line
Count(c) == Cardinality({i \in 1..Len(calls) : calls[i] = c})
\* A file has been decoded, and it has fewer than two channels.
Mono == data.ndim # 0 /\ Len(data.chans) < 2

\* C1 (as stated): on a frame with fewer than 2 channels a coherence run
\* ends with the channel-count error and exit code 1 without reaching the
\* estimator or the chart, and a PSD run selects channel 0 and goes on to
\* invoke the spectral solver.
C1_AsStated ==
    /\ (script = "coherence" /\ Mono) =>
          /\ ~Invoked("signal.coherence") /\ ~Invoked("plt.show")
          /\ pc = "exit" => (exitcode = 1 /\ stderr = <<"at least two channels">>)
    /\ (script = "MESA" /\ Mono /\ pc = "exit") =>
          /\ Invoked("M.solve")
          /\ data_MESA.sig = data.chans[1]

\* C1 (amended): the coherence half as stated; a PSD run on such a frame
\* never fails for its channel count: once past the optional normalization
\* it selects channel 0, and it then invokes the solver unless the selected
\* channel holds exactly one sample, where the order computation raises
\* OverflowError.
C1_ChannelCount ==
    /\ (script = "coherence" /\ Mono) =>
          /\ ~Invoked("signal.coherence") /\ ~Invoked("plt.show")
          /\ pc \in {"rateend", "summary", "channels", "exit"}
          /\ pc = "exit" => (exitcode = 1 /\ stderr = <<"at least two channels">>)
    /\ (script = "MESA" /\ Mono) =>
          /\ ~Complained("at least two channels")
          /\ (pc = "exit" /\ ~Invoked("M.solve")) =>
                \/ stderr = <<"Traceback: integrated_loudness">>
                \/ stderr = <<"Traceback: OverflowError">> /\ data_MESA.len = 1
          /\ (pc = "exit" /\ ~Complained("Traceback: integrated_loudness")) =>
                /\ data_MESA.sig = data.chans[1]
                /\ data_MESA.len \in {data.frames, data.frames - 1}

\* A mono file ended each way: the coherence run with the channel error,
\* PSD runs with the chart and with the one-sample overflow.
C1_Witness ==
    /\ Mono /\ pc = "exit" /\ data.chans[1] = "a"
    /\ script = "coherence" /\ exitcode = 1 /\ Printed("summary")

C1_WitnessPSD ==
    /\ Mono /\ pc = "exit" /\ script = "MESA" /\ data.chans[1] = "a"
    /\ Invoked("plt.show") /\ data_MESA.sig = "a" /\ data_MESA.len = 3

\* C2: once the band is resolved, a requested end of 0 has become
\* floor(sampleRate / 2), a requested end k > 0 is k, and the start is the
\* requested start, in both tools.
C2_BandResolution ==
    (realrate # 0 /\ pc # "rateend") =>
        /\ args.rateend = 0 =>
              (2 * rateend <= realrate /\ realrate < 2 * rateend + 2)
        /\ args.rateend > 0 => rateend = args.rateend
        /\ ratestart = args.ratestart

\* An odd sample rate with the default end, and an explicit end, resolved.
C2_Witness ==
    /\ pc = "exit" /\ exitcode = 0 /\ script = "coherence"
    /\ args.rateend = 0 /\ realrate = 49 /\ rateend = 24
    /\ args.ratestart = 0

\* C3: in coherence mode a requested nperseg < 8 ends the run with exit
\* code 1 before the file is decoded, the estimator invoked or a chart
\* shown; with nperseg >= 8 the check lets the run through to the decoder.
C3_NpersegCheck ==
    (script = "coherence" /\ args.nperseg \in Npersegs) =>
        /\ args.nperseg < 8 =>
              /\ ~Invoked("sf.read")
              /\ ~Invoked("signal.coherence")
              /\ ~Invoked("plt.show")
              /\ pc \in {"nperseg", "exit"}
              /\ pc = "exit" => exitcode = 1
        /\ args.nperseg >= 8 =>
              /\ ~Printed("nperseg should be >= 8")
              /\ pc = "exit" => Invoked("sf.read")

\* nperseg = 4 has aborted the run.
C3_Witness ==
    /\ script = "coherence" /\ args.nperseg = 4 /\ pc = "exit"
    /\ exitcode = 1 /\ calls = <<>>

\* The resolved band, as the data model requires it of a FrequencyBand.
ValidBand == 0 <= ratestart /\ ratestart < rateend /\ 2 * rateend <= realrate

\* C4: an estimator (the solver, the spectrum sampling, the coherence
\* estimator) is only ever invoked with 0 <= start < end <= sampleRate/2.
C4_BandChecked ==
    (Invoked("M.solve") \/ Invoked("M.spectrum") \/ Invoked("signal.coherence"))
        => ValidBand

\* C5: in PSD mode a selected channel of N < 3 samples ends the run with an
\* error without the solver being invoked, and for N >= 3 the solver is
\* invoked once, with order floor(2N / (2 ln N)).
C5_DegenerateSignal ==
    script = "MESA" =>
        /\ Invoked("M.solve") =>
              /\ data_MESA.len >= 3
              /\ Count("M.solve") = 1
              /\ m = OrderOf(data_MESA.len)
        /\ (pc = "exit" /\ Printed("summary") /\ data_MESA.len < 3) =>
              exitcode = 1

\* C6: in PSD mode with a target given, a non-finite measured loudness ends
\* the run before the solver is invoked; with no target the meter and the
\* transform are never invoked and the analysed samples are the decoded
\* ones.
C6_Normalization ==
    script = "MESA" =>
        /\ (target_loudness # "None" /\ data.ndim # 0
              /\ IntegratedLoudness(data) = "-inf") => ~Invoked("M.solve")
        /\ args.normalize = "None" =>
              /\ ~Invoked("integrated_loudness")
              /\ ~Invoked("normalize.loudness")
              /\ Invoked("M.solve") =>
                    (data_MESA.gain = "none" /\ data_MESA.sig = data.chans[1])

\* The lines of the report, and the estimators.
ReportLines == {"summary", "max frequency", "min/max coherence"}
AnyReport == \E l \in ReportLines : Printed(l)
FullReport ==
    /\ Printed("summary")
    /\ Printed("max frequency") \/ Printed("min/max coherence")
    /\ Invoked("plt.show")
EstimatorInvoked ==
    Invoked("M.solve") \/ Invoked("M.spectrum") \/ Invoked("signal.coherence")

\* C7: a finished run either completed with the full report, or aborted
\* with a message on standard error and no part of the report; every
\* exit-code-1 abort wrote to standard error, and no failure comes after an
\* estimator was invoked.
C7_AllOrNothing ==
    pc = "exit" =>
        /\ \/ exitcode = 0 /\ FullReport /\ stderr = <<>>
           \/ exitcode # 0 /\ stderr # <<>> /\ ~AnyReport /\ ~Invoked("plt.show")
        /\ exitcode = 1 => stderr # <<>>
        /\ exitcode # 0 => ~EstimatorInvoked

\* C8: when several points of the result share the maximum (minimum) value,
\* the reported max (min) frequency is the lowest of their frequencies.
C8_TieBreak ==
    /\ (script = "MESA" /\ Printed("max frequency")) =>
          \A i \in 1..Len(PSD) :
              /\ PSD[i] = PSD[max_idx_y] => FreqLE(f_PSD[max_idx_y], f_PSD[i])
              /\ PSD[i] = PSD[min_idx_y] => FreqLE(f_PSD[min_idx_y], f_PSD[i])
    /\ (script = "coherence" /\ Printed("min/max coherence")) =>
          \A i \in 1..Len(Pxy_filtered) :
              /\ Pxy_filtered[i] = Pxy_filtered[max_idx_y]
                    => FreqLE(f_filtered[max_idx_y], f_filtered[i])
              /\ Pxy_filtered[i] = Pxy_filtered[min_idx_y]
                    => FreqLE(f_filtered[min_idx_y], f_filtered[i])

\* The identical-channel check has run, and what it decided.
IdenticalChecked == script = "coherence" /\ title # ""
isIdentical == title = "Channels identical in"
\* Every value of a is within tol (in units of 1e-8) of 1.0.
AllWithin(a, tol) ==
    \A i \in 1..Len(a) : a[i] - One <= tol /\ One - a[i] <= tol

InBand == {i \in 1..Len(f) :
              /\ ratestart * f[i][2] <= f[i][1]
              /\ f[i][1] <= rateend * f[i][2]}

\* C10: the filtered result is exactly the (frequency, value) pairs of the
\* estimator's output with start <= frequency <= end, in their order; the
\* reported extrema are those of the filtered sequence, so both reported
\* frequencies lie in the band and the reported min is at most the max.
C10_BandFilter ==
    (script = "coherence" /\ pc \in {"extrema", "identical", "show"}) =>
        /\ Len(f_filtered) = Cardinality(InBand)
        /\ Len(Pxy_filtered) = Cardinality(InBand)
        /\ \A i \in InBand :
              LET k == Cardinality({j \in InBand : j <= i})
              IN  f_filtered[k] = f[i] /\ Pxy_filtered[k] = Cxy[i]
        /\ pc # "extrema" =>
              /\ min_idx_y \in 1..Len(Pxy_filtered)
              /\ max_idx_y \in 1..Len(Pxy_filtered)
              /\ \A k \in 1..Len(Pxy_filtered) :
                    /\ Pxy_filtered[min_idx_y] <= Pxy_filtered[k]
                    /\ Pxy_filtered[k] <= Pxy_filtered[max_idx_y]
              /\ Pxy_filtered[min_idx_y] <= Pxy_filtered[max_idx_y]
              /\ \A k \in {min_idx_y, max_idx_y} :
                    /\ FreqLE(Hz(ratestart, 1), f_filtered[k])
                    /\ FreqLE(f_filtered[k], Hz(rateend, 1))

\* A band that keeps the grid point at its upper end and drops a point
\* whose value is below the reported minimum.
C10_Witness ==
    /\ script = "coherence" /\ pc = "show"
    /\ Len(f_filtered) < Len(f)
    /\ \E k \in 1..Len(f_filtered) : f_filtered[k] = Hz(rateend * f[1][2], f[1][2])
    /\ \E i \in 1..Len(Cxy) : Cxy[i] < Pxy_filtered[min_idx_y]
====
